---- MODULE Spec2Model ----
(***************************************************************************)
(* Mandate lifecycle and audit trail of PaymentLabs_AP2_Aani_Demo.py.     *)
(*                                                                         *)
(* The program is a Streamlit script: every user interaction runs the     *)
(* script once, top to bottom, against st.session_state.  The state is    *)
(* the session state (mandates, audit_log, workflow_step), the wall clock *)
(* as now_iso() last read it (clock), and what the run displayed          *)
(* (screen).  One action stands for one script run triggered by one       *)
(* button; a run that calls now_iso() reads a time at or after the last   *)
(* reading.                                                                *)
(*                                                                         *)
(* Amounts are held in hundredths (500.00 is 50000).  Random draws        *)
(* (uuid.uuid4, random.choice) are nondeterministic choices.              *)
(***************************************************************************)
EXTENDS Integers, Sequences, FiniteSets, TLC

VARIABLES mandates, audit_log, workflow_step, clock, screen

vars == <<mandates, audit_log, workflow_step, clock, screen>>

(***************************************************************************)
(* Bounds of the model.                                                    *)
(***************************************************************************)
MaxEvents == 5
NumIds == 2
MaxClock == 1

(***************************************************************************)
(* Input domains.                                                          *)
(***************************************************************************)
HexIds == 1..NumIds
HexTxids == {1}

AgentIdentity ==
  [agent_id |-> "agent-uae-fintech", name |-> "UAE Fintech Agent",
   pubkey |-> "demo_pubkey_UAE2025"]

AgentOptions == {AgentIdentity.agent_id, "merchant:emaar-store"}
CurrencyOptions == {"AED", "USD", "EUR"}

\* the consent forms tried: user name, agent, amount (>= 0.01), currency, purpose
ConsentForms ==
  { <<"Mohammed Al Zarooni", "agent-uae-fintech", 50000, "AED",
      "IntentMandate for subscription / one-off purchase via Aani">>,
    <<"Test User", "merchant:emaar-store", 1, "EUR",
      "IntentMandate for subscription / one-off purchase via Aani">> }

RailOptions == {"Aani", "UAEFTS/RTGS"}
GatewayStatuses == {"SETTLED", "PENDING", "FAILED"}
RiskLevels == {"LOW", "MEDIUM", "HIGH"}
Steps == {"Landing", "Consent", "Registry", "RiskAML", "Payment", "Audit"}

(***************************************************************************)
(* Text helpers: decimal digits, str.upper() of a hex prefix, now_iso().  *)
(***************************************************************************)
Digit(d) == <<"0", "1", "2", "3", "4", "5", "6", "7", "8", "9">>[d + 1]

RECURSIVE NumText(_)
NumText(n) == IF n < 10 THEN Digit(n) ELSE NumText(n \div 10) \o Digit(n % 10)

TwoDigits(n) == Digit((n \div 10) % 10) \o Digit(n % 10)

\* datetime.utcnow().replace(microsecond=0).isoformat() + "Z", t seconds
\* after the start of the session's minute
now_iso(t) == "2025-01-01T00:00:" \o TwoDigits(t) \o "Z"

\* "M-" + uuid.uuid4().hex[:10].upper(), for the draw h
MandateIdOf(h) == "M-" \o "00000000A" \o NumText(h)

\* "TX-" + uuid.uuid4().hex[:12].upper(), for the draw h
TxidOf(h) == "TX-" \o "0000000000B" \o NumText(h)

\* f"{x:.2f}" of an amount held in hundredths
Format2f(c) == NumText(c \div 100) \o "." \o TwoDigits(c % 100)

\* repr of the float, as json.dumps writes it: 500.0, 0.01, 0.1
FloatRepr(c) ==
  NumText(c \div 100) \o "." \o
    (IF c % 100 = 0 THEN "0"
     ELSE IF c % 10 = 0 THEN Digit((c % 100) \div 10)
     ELSE TwoDigits(c % 100))

(***************************************************************************)
(* Dictionaries and JSON.  A dict is the sequence of its <<key, value>>   *)
(* pairs in insertion order; a value is a string, a literal (a number     *)
(* already written as text) or a nested dict.                             *)
(***************************************************************************)
Str(s) == [kind |-> "str", text |-> s, items |-> <<>>]
Lit(s) == [kind |-> "lit", text |-> s, items |-> <<>>]
Obj(d) == [kind |-> "obj", text |-> "", items |-> d]

\* the keys the program's dicts use, in code-point order (sort_keys=True)
KeyOrder ==
  <<"a", "agent", "amount", "b", "created_at", "currency", "issued_by",
    "mandate_id", "mandate_type", "meta", "purpose", "status", "txid">>

KeyRank(k) == CHOOSE i \in DOMAIN KeyOrder : KeyOrder[i] = k

RECURSIVE InsertByKey(_, _)
InsertByKey(sorted, kv) ==
  IF sorted = <<>> THEN <<kv>>
  ELSE IF KeyRank(kv[1]) < KeyRank(Head(sorted)[1]) THEN <<kv>> \o sorted
  ELSE <<Head(sorted)>> \o InsertByKey(Tail(sorted), kv)

\* slip of the dump: sort_keys is left out, the keys stay in insertion order
InsertionOrder(d) == d

RECURSIVE SortKeys(_)
SortKeys(d) ==
  IF d = <<>> THEN <<>> ELSE InsertByKey(SortKeys(Tail(d)), Head(d))

\* json.dumps(payload, sort_keys=True): the JSON text
RECURSIVE json_dumps(_), DumpItems(_)
json_dumps(v) ==
  IF v.kind = "str" THEN "\"" \o v.text \o "\""
  ELSE IF v.kind = "lit" THEN v.text
  ELSE "{" \o DumpItems(SortKeys(v.items)) \o "}"

DumpItems(d) ==
  IF d = <<>> THEN ""
  ELSE "\"" \o Head(d)[1] \o "\": " \o json_dumps(Head(d)[2]) \o
       (IF Tail(d) = <<>> THEN "" ELSE ", " \o DumpItems(Tail(d)))

\* base64.urlsafe_b64encode(hmac.new(secret, msg, sha256).digest()): the tag
\* is kept symbolic, as the keyed digest of exactly these bytes
HmacSha256B64(secret, msg) == "HS256[" \o secret \o "](" \o msg \o ")"

DemoSecret == "demo_secret_key"

sign_payload(payload) == HmacSha256B64(DemoSecret, json_dumps(Obj(payload)))

(***************************************************************************)
(* Mandate (dataclass) and asdict().                                       *)
(***************************************************************************)
Mandate(id, type, amount, currency, created, issuer, status, meta) ==
  [mandate_id |-> id, mandate_type |-> type, amount |-> amount,
   currency |-> currency, created_at |-> created, issued_by |-> issuer,
   status |-> status, meta |-> meta]

to_dict(m) ==
  << <<"mandate_id", Str(m.mandate_id)>>,
     <<"mandate_type", Str(m.mandate_type)>>,
     <<"amount", Lit(FloatRepr(m.amount))>>,
     <<"currency", Str(m.currency)>>,
     <<"created_at", Str(m.created_at)>>,
     <<"issued_by", Str(m.issued_by)>>,
     <<"status", Str(m.status)>>,
     <<"meta", Obj(<< <<"agent", Str(m.meta.agent)>>,
                      <<"purpose", Str(m.meta.purpose)>> >>)>> >>

(***************************************************************************)
(* Mock settlement gateway.  txid and status are its two random draws.    *)
(***************************************************************************)
\* slip of the mapping: the codes of PENDING and FAILED are exchanged
ProcessingCodeExchanged(status) ==
  IF status = "SETTLED" THEN "00" ELSE IF status = "PENDING" THEN "05" ELSE "09"

ProcessingCode(status) ==
  IF status = "SETTLED" THEN "00" ELSE IF status = "PENDING" THEN "09" ELSE "05"

Narrative(status) ==
  IF status = "SETTLED" THEN "Payment successful"
  ELSE IF status = "PENDING" THEN "Payment pending"
  ELSE "Payment failed"

SettlementTime(status, t) == now_iso(t)

\* slip of the echo: the currency is the default, whatever the mandate holds
mock_aani_payment_api_default_currency(mandate, rail, txid, status, t) ==
  [transactionId |-> txid,
   status |-> status,
   amount |-> Format2f(mandate.amount),
   currency |-> "AED",
   rail |-> rail,
   settlementTime |-> SettlementTime(status, t),
   processingCode |-> ProcessingCode(status),
   narrative |-> Narrative(status),
   meta |-> [processor |-> IF rail = "Aani" THEN "Aani-mock" ELSE "UAEFTS-mock",
             mode |-> "test"]]

mock_aani_payment_api(mandate, rail, txid, status, t) ==
  [transactionId |-> txid,
   status |-> status,
   amount |-> Format2f(mandate.amount),
   currency |-> mandate.currency,
   rail |-> rail,
   settlementTime |-> SettlementTime(status, t),
   processingCode |-> ProcessingCode(status),
   narrative |-> Narrative(status),
   meta |-> [processor |-> IF rail = "Aani" THEN "Aani-mock" ELSE "UAEFTS-mock",
             mode |-> "test"]]

(***************************************************************************)
(* Session state helpers.                                                  *)
(***************************************************************************)
\* slips of the insert: the mandate is not stored; it is stored at the tail
StoreInsertDropped(store, m) == store

StoreInsertAtTail(store, m) == Append(store, m)

\* st.session_state.mandates.insert(0, mandate)
StoreInsert(store, m) == <<m>> \o store

\* slip of the append: the event is put at the head, as the mandates are
AuditPrepend(log, e) == <<e>> \o log

\* st.session_state.audit_log.append(event)
AuditAppend(log, e) == Append(log, e)

RECURSIVE IndicesWhere(_, _)
\* the positions i >= from at which keep holds, ascending: the order of a
\* list comprehension over the store
IndicesWhere(keep, from) ==
  IF from > Len(keep) THEN <<>>
  ELSE (IF keep[from] THEN <<from>> ELSE <<>>) \o IndicesWhere(keep, from + 1)

\* slip of the filter: the status test is left out
RiskScreenableAny(m) == TRUE

RiskScreenable(m) == m.status \in {"ACTIVE", "ISSUED"}

\* [m for m in mandates if m.status in ("ACTIVE", "ISSUED")], as positions
RiskCandidates(store) ==
  IndicesWhere([i \in DOMAIN store |-> RiskScreenable(store[i])], 1)

\* slip of the filter: only the type is tested
PayableByTypeOnly(m) == m.mandate_type \in {"PaymentMandate", "IntentMandate"}

\* slip of the filter: a pending payment may be run again
PayableOrPending(m) ==
  /\ m.mandate_type \in {"PaymentMandate", "IntentMandate"}
  /\ m.status \in {"ACTIVE", "ISSUED", "PENDING"}

\* slip of the filter: only a mandate screened below HIGH may be paid
PayableAfterScreening(m) ==
  /\ m.mandate_type \in {"PaymentMandate", "IntentMandate"}
  /\ m.status \in {"ACTIVE", "ISSUED"}
  /\ \E n \in DOMAIN audit_log :
       /\ audit_log[n].event = "RISK_CHECK"
       /\ audit_log[n].mandate_id = m.mandate_id
       /\ audit_log[n].risk_level # "HIGH"

Payable(m) ==
  /\ m.mandate_type \in {"PaymentMandate", "IntentMandate"}
  /\ m.status \in {"ACTIVE", "ISSUED"}

\* slip of the filter: every stored mandate is offered
AvailableUnfiltered(store) == [i \in DOMAIN store |-> i]

\* [m for m in mandates if m.mandate_type in (...) and m.status in (...)]
Available(store) == IndicesWhere([i \in DOMAIN store |-> Payable(store[i])], 1)

\* the selectbox options: [m.mandate_id for m in listed]
OptionIds(store, listed) == [k \in DOMAIN listed |-> store[listed[k]].mandate_id]

\* next(m for m in listed if m.mandate_id == sel_id): the first match
FirstMatch(store, listed, sel_id) ==
  listed[CHOOSE k \in DOMAIN listed :
           /\ store[listed[k]].mandate_id = sel_id
           /\ \A j \in 1..(k - 1) : store[listed[j]].mandate_id # sel_id]

\* the other mapping: SETTLED is recorded as EXECUTED
AppliedStatusMapped(response) ==
  IF response.status = "SETTLED" THEN "EXECUTED" ELSE response.status

\* mandate.status = response["status"]
AppliedStatus(response) == response.status

\* slip of the listing: the log is shown in stored order
StoredOrder(log) == log

RECURSIVE Reversed(_)
\* list(reversed(log))
Reversed(log) ==
  IF log = <<>> THEN <<>> ELSE Append(Reversed(Tail(log)), Head(log))

(***************************************************************************)
(* What a script run displays for the current step, before any button     *)
(* handler of that step adds to it.                                        *)
(***************************************************************************)
RegistryRow(m) ==
  [mandate_id |-> m.mandate_id, type |-> m.mandate_type,
   amount |-> Format2f(m.amount), currency |-> m.currency,
   status |-> m.status, issued_by |-> m.issued_by, created_at |-> m.created_at]

Page(step, store, log) ==
  IF step = "Registry" THEN
    IF store = <<>>
      THEN [kind |-> "info", value |-> "No mandates yet. Go back to Consent Screen."]
      ELSE [kind |-> "table", value |-> [i \in DOMAIN store |-> RegistryRow(store[i])]]
  ELSE IF step = "RiskAML" THEN
    IF RiskCandidates(store) = <<>>
      THEN [kind |-> "info", value |-> "No mandates available for risk check."]
      ELSE [kind |-> "select", value |-> OptionIds(store, RiskCandidates(store))]
  ELSE IF step = "Payment" THEN
    IF Available(store) = <<>>
      THEN [kind |-> "info",
            value |-> "No mandates available. Create or convert one earlier."]
      ELSE [kind |-> "select", value |-> OptionIds(store, Available(store))]
  ELSE IF step = "Audit" THEN
    IF log = <<>>
      THEN [kind |-> "info", value |-> "No audit events yet."]
      ELSE [kind |-> "entries", value |-> Reversed(log)]
  ELSE [kind |-> "page", value |-> step]

(***************************************************************************)
(* Initial session state.                                                  *)
(***************************************************************************)
Init ==
  /\ mandates = <<>>
  /\ audit_log = <<>>
  /\ workflow_step = "Landing"
  /\ clock = 0
  /\ screen = Page("Landing", <<>>, <<>>)

\* the readings datetime.utcnow() may give to a run: the clock never goes back
Readings == clock..MaxClock

(***************************************************************************)
(* Navigation: go_to(step) followed by st.rerun().                         *)
(***************************************************************************)
\* slip of the restart: going back to Landing starts a fresh session
go_to_clearing(from, step) ==
  /\ workflow_step = from
  /\ workflow_step' = step
  /\ mandates' = IF step = "Landing" THEN <<>> ELSE mandates
  /\ audit_log' = IF step = "Landing" THEN <<>> ELSE audit_log
  /\ screen' = Page(step, mandates', audit_log')
  /\ UNCHANGED clock

go_to(from, step) ==
  /\ workflow_step = from
  /\ workflow_step' = step
  /\ screen' = Page(step, mandates, audit_log)
  /\ UNCHANGED <<mandates, audit_log, clock>>

StartDemo == go_to("Landing", "Consent")
NextToRegistry == go_to("Consent", "Registry")
NextToRiskAML == go_to("Registry", "RiskAML")
NextToPayment == go_to("RiskAML", "Payment")
NextToAudit == go_to("Payment", "Audit")
RestartDemo == go_to("Audit", "Landing")

(***************************************************************************)
(* Step 1: the consent form is submitted.                                  *)
(***************************************************************************)
IssuedEvent(m, agent, user, t) ==
  [event |-> "MANDATE_ISSUED", mandate_id |-> m.mandate_id,
   mandate_type |-> m.mandate_type, agent |-> agent, user |-> user,
   timestamp |-> now_iso(t), signature |-> sign_payload(to_dict(m))]

ConsentRegisteredEvent(m, t) ==
  [event |-> "CBUAE_CONSENT_REGISTERED", mandate_id |-> m.mandate_id,
   timestamp |-> now_iso(t),
   note |-> "Consent registered with CBUAE API Hub (mock)"]

\* slip of the handler: the consent registration event is not written
ApproveWithoutRegistration(h, user_name, agent, amount, currency, purpose, t) ==
  LET mandate == Mandate(MandateIdOf(h), "IntentMandate", amount, currency,
                         now_iso(t), user_name, "ACTIVE",
                         [agent |-> agent, purpose |-> purpose])
  IN /\ mandates' = StoreInsert(mandates, mandate)
     /\ audit_log' =
          AuditAppend(audit_log, IssuedEvent(mandate, agent, user_name, t))
     /\ screen' = [kind |-> "issued", value |-> mandate.mandate_id]
     /\ clock' = t
     /\ UNCHANGED workflow_step

ApproveIntentMandate(h, user_name, agent, amount, currency, purpose, t) ==
  LET mandate == Mandate(MandateIdOf(h), "IntentMandate", amount, currency,
                         now_iso(t), user_name, "ACTIVE",
                         [agent |-> agent, purpose |-> purpose])
  IN /\ mandates' = StoreInsert(mandates, mandate)
     /\ audit_log' =
          AuditAppend(AuditAppend(audit_log,
                                  IssuedEvent(mandate, agent, user_name, t)),
                      ConsentRegisteredEvent(mandate, t))
     /\ screen' = [kind |-> "issued", value |-> mandate.mandate_id]
     /\ clock' = t
     /\ UNCHANGED workflow_step

\* slip of the widget: the minimum is left at zero
MinValueLowered == 1 - 1

\* st.number_input("Amount", min_value=0.01, ...), in hundredths
MinValue == 1

\* amounts a user may type that the Amount field does not permit
OutOfRangeEntries == {0}

\* the forms as typed: the consent forms, and each with such an amount
FormsTyped ==
  ConsentForms \cup
    {[form EXCEPT ![3] = typed] : form \in ConsentForms, typed \in OutOfRangeEntries}

ConsentSubmit ==
  /\ workflow_step = "Consent"
  /\ Len(audit_log) + 2 <= MaxEvents
  /\ \E h \in HexIds, form \in FormsTyped, t \in Readings :
       /\ form[2] \in AgentOptions
       /\ form[3] >= MinValue
       /\ form[4] \in CurrencyOptions
       /\ ApproveIntentMandate(h, form[1], form[2], form[3], form[4], form[5], t)

\* An amount below min_value is typed into the form: number_input does not
\* take the entry, so nothing reaches the handler; store and log stay as they
\* are and no error is raised.  (The Currency selectbox offers nothing outside
\* its options, so there is no such entry for the currency.)
AmountOutOfRange ==
  /\ workflow_step = "Consent"
  /\ \E typed \in OutOfRangeEntries :
       /\ typed < MinValue
       /\ screen' = [kind |-> "rejected", value |-> Format2f(typed)]
  /\ UNCHANGED <<mandates, audit_log, workflow_step, clock>>

(***************************************************************************)
(* Step 3: Run Risk Screening.                                             *)
(***************************************************************************)
RiskCheckEvent(m, risk, t) ==
  [event |-> "RISK_CHECK", mandate_id |-> m.mandate_id, risk_level |-> risk,
   timestamp |-> now_iso(t), note |-> "Sanctions & AML screening simulated"]

RiskScreening(i, risk, t) ==
  /\ audit_log' = AuditAppend(audit_log, RiskCheckEvent(mandates[i], risk, t))
  /\ screen' = [kind |-> "risk", value |-> risk]
  /\ clock' = t
  /\ UNCHANGED <<mandates, workflow_step>>

RunRiskScreening ==
  /\ workflow_step = "RiskAML"
  /\ RiskCandidates(mandates) # <<>>
  /\ Len(audit_log) + 1 <= MaxEvents
  /\ \E k \in DOMAIN RiskCandidates(mandates), risk \in RiskLevels,
        t \in Readings :
       LET sel_id == OptionIds(mandates, RiskCandidates(mandates))[k]
       IN RiskScreening(FirstMatch(mandates, RiskCandidates(mandates), sel_id),
                        risk, t)

(***************************************************************************)
(* Step 4: Execute Payment.                                                *)
(***************************************************************************)
\* the other signature: the settlement status is signed as well
PaymentSignatureWithStatus(m, response) ==
  sign_payload(<< <<"mandate_id", Str(m.mandate_id)>>,
                  <<"txid", Str(response.transactionId)>>,
                  <<"status", Str(response.status)>> >>)

PaymentSignature(m, response) ==
  sign_payload(<< <<"mandate_id", Str(m.mandate_id)>>,
                  <<"txid", Str(response.transactionId)>> >>)

PaymentExecutedEvent(m, response, rail, t) ==
  [event |-> "PAYMENT_EXECUTED", mandate_id |-> m.mandate_id,
   transaction_id |-> response.transactionId, status |-> response.status,
   rail |-> rail, timestamp |-> now_iso(t), agent |-> AgentIdentity,
   signature |-> PaymentSignature(m, response), response |-> response]

Execute(i, rail, txid, status, t) ==
  LET response == mock_aani_payment_api(mandates[i], rail, txid, status, t)
      paid == [mandates[i] EXCEPT !.status = AppliedStatus(response)]
  IN /\ mandates' = [mandates EXCEPT ![i] = paid]
     /\ audit_log' =
          AuditAppend(audit_log, PaymentExecutedEvent(paid, response, rail, t))
     /\ screen' = [kind |-> "paid", value |-> response]
     /\ clock' = t
     /\ UNCHANGED workflow_step

ExecutePayment ==
  /\ workflow_step = "Payment"
  /\ Available(mandates) # <<>>
  /\ Len(audit_log) + 1 <= MaxEvents
  /\ \E k \in DOMAIN Available(mandates), rail \in RailOptions,
        h \in HexTxids, status \in GatewayStatuses, t \in Readings :
       LET sel_id == OptionIds(mandates, Available(mandates))[k]
       IN Execute(FirstMatch(mandates, Available(mandates), sel_id),
                  rail, TxidOf(h), status, t)

(***************************************************************************)
(* The program as it stands in the source.                                 *)
(***************************************************************************)
Next ==
  \/ StartDemo
  \/ ConsentSubmit
  \/ AmountOutOfRange
  \/ NextToRegistry
  \/ NextToRiskAML
  \/ RunRiskScreening
  \/ NextToPayment
  \/ ExecutePayment
  \/ NextToAudit
  \/ RestartDemo

Spec == Init /\ [][Next]_vars

(***************************************************************************)
(* Revoke and convert.  The source at hand holds no handler for them (the  *)
(* Payment step only filters on their outcomes, "Create or convert one     *)
(* earlier"); they are taken from the specification's sections 4.1, 6, 7:  *)
(* looked up by mandate id, typed failures, one audit event on success.    *)
(* They are offered where the mandates are listed, at the Registry step.   *)
(***************************************************************************)
\* the ids a caller passes: those of the listed mandates, and one that was
\* never issued
NeverIssuedId == "M-0000000000"

RequestIds(store) ==
  {store[i].mandate_id : i \in DOMAIN store} \cup {NeverIssuedId}

\* position of the first stored mandate with this id, 0 when there is none
Lookup(store, id) ==
  IF \E i \in DOMAIN store : store[i].mandate_id = id
    THEN CHOOSE i \in DOMAIN store :
           /\ store[i].mandate_id = id
           /\ \A j \in 1..(i - 1) : store[j].mandate_id # id
    ELSE 0

Failure(op, error, id, status) ==
  [kind |-> "error",
   value |-> [op |-> op, error |-> error, mandate_id |-> id, status |-> status]]

Fails(op, error, id, status) ==
  /\ screen' = Failure(op, error, id, status)
  /\ UNCHANGED <<mandates, audit_log, workflow_step, clock>>

RevokedEvent(m, t) ==
  [event |-> "MANDATE_REVOKED", mandate_id |-> m.mandate_id,
   timestamp |-> now_iso(t)]

\* slip of the guard: a revoked mandate may be revoked again
CanRevokeAlways(m) == TRUE

CanRevoke(m) == m.status # "REVOKED"

revokeMandate(id) ==
  LET i == Lookup(mandates, id) IN
  IF i = 0 THEN Fails("revoke", "NotFoundError", id, "")
  ELSE IF ~CanRevoke(mandates[i])
    THEN Fails("revoke", "InvalidStateError", id, mandates[i].status)
  ELSE /\ Len(audit_log) + 1 <= MaxEvents
       /\ \E t \in Readings :
            /\ mandates' = [mandates EXCEPT ![i].status = "REVOKED"]
            /\ audit_log' = AuditAppend(audit_log, RevokedEvent(mandates[i], t))
            /\ screen' = [kind |-> "revoked", value |-> id]
            /\ clock' = t
            /\ UNCHANGED workflow_step

RevokeMandate ==
  /\ workflow_step = "Registry"
  /\ \E id \in RequestIds(mandates) : revokeMandate(id)

ConvertedEvent(m, t) ==
  [event |-> "INTENT_CONVERTED", mandate_id |-> m.mandate_id,
   timestamp |-> now_iso(t)]

\* slip of the guard: the type is not tested
CanConvertAnyType(m) == m.status \in {"ACTIVE", "ISSUED"}

CanConvert(m) ==
  /\ m.mandate_type = "IntentMandate"
  /\ m.status \in {"ACTIVE", "ISSUED"}

\* slip of the conversion: the mandate is issued anew, created_at included
convertMandateReissued(id) ==
  LET i == Lookup(mandates, id) IN
  IF i = 0 THEN Fails("convert", "NotFoundError", id, "")
  ELSE IF ~CanConvert(mandates[i])
    THEN Fails("convert", "InvalidStateError", id, mandates[i].status)
  ELSE /\ Len(audit_log) + 1 <= MaxEvents
       /\ \E t \in Readings :
            /\ mandates' = [mandates EXCEPT ![i].mandate_type = "PaymentMandate",
                                            ![i].status = "ISSUED",
                                            ![i].created_at = now_iso(t)]
            /\ audit_log' = AuditAppend(audit_log, ConvertedEvent(mandates[i], t))
            /\ screen' = [kind |-> "converted", value |-> id]
            /\ clock' = t
            /\ UNCHANGED workflow_step

convertMandate(id) ==
  LET i == Lookup(mandates, id) IN
  IF i = 0 THEN Fails("convert", "NotFoundError", id, "")
  ELSE IF ~CanConvert(mandates[i])
    THEN Fails("convert", "InvalidStateError", id, mandates[i].status)
  ELSE /\ Len(audit_log) + 1 <= MaxEvents
       /\ \E t \in Readings :
            /\ mandates' = [mandates EXCEPT ![i].mandate_type = "PaymentMandate",
                                            ![i].status = "ISSUED"]
            /\ audit_log' = AuditAppend(audit_log, ConvertedEvent(mandates[i], t))
            /\ screen' = [kind |-> "converted", value |-> id]
            /\ clock' = t
            /\ UNCHANGED workflow_step

ConvertMandate ==
  /\ workflow_step = "Registry"
  /\ \E id \in RequestIds(mandates) : convertMandate(id)

(***************************************************************************)
(* The program together with the revoke and convert operations.            *)
(***************************************************************************)
NextLifecycle ==
  \/ StartDemo
  \/ ConsentSubmit
  \/ AmountOutOfRange
  \/ NextToRegistry
  \/ NextToRiskAML
  \/ RunRiskScreening
  \/ NextToPayment
  \/ ExecutePayment
  \/ NextToAudit
  \/ RestartDemo
  \/ RevokeMandate
  \/ ConvertMandate

SpecLifecycle == Init /\ [][NextLifecycle]_vars

(***************************************************************************)
(* A longer session of the program as it stands in the source: the same   *)
(* handlers, with room for two consent forms and two further events each.  *)
(***************************************************************************)
MaxEventsLongSession == 6

ConsentSubmitLong ==
  /\ workflow_step = "Consent"
  /\ Len(audit_log) + 2 <= MaxEventsLongSession
  /\ \E h \in HexIds, form \in FormsTyped, t \in Readings :
       /\ form[2] \in AgentOptions
       /\ form[3] >= MinValue
       /\ form[4] \in CurrencyOptions
       /\ ApproveIntentMandate(h, form[1], form[2], form[3], form[4], form[5], t)

RunRiskScreeningLong ==
  /\ workflow_step = "RiskAML"
  /\ RiskCandidates(mandates) # <<>>
  /\ Len(audit_log) + 1 <= MaxEventsLongSession
  /\ \E k \in DOMAIN RiskCandidates(mandates), risk \in RiskLevels,
        t \in Readings :
       LET sel_id == OptionIds(mandates, RiskCandidates(mandates))[k]
       IN RiskScreening(FirstMatch(mandates, RiskCandidates(mandates), sel_id),
                        risk, t)

ExecutePaymentLong ==
  /\ workflow_step = "Payment"
  /\ Available(mandates) # <<>>
  /\ Len(audit_log) + 1 <= MaxEventsLongSession
  /\ \E k \in DOMAIN Available(mandates), rail \in RailOptions,
        h \in HexTxids, status \in GatewayStatuses, t \in Readings :
       LET sel_id == OptionIds(mandates, Available(mandates))[k]
       IN Execute(FirstMatch(mandates, Available(mandates), sel_id),
                  rail, TxidOf(h), status, t)

NextLongSession ==
  \/ StartDemo
  \/ ConsentSubmitLong
  \/ AmountOutOfRange
  \/ NextToRegistry
  \/ NextToRiskAML
  \/ RunRiskScreeningLong
  \/ NextToPayment
  \/ ExecutePaymentLong
  \/ NextToAudit
  \/ RestartDemo

SpecLongSession == Init /\ [][NextLongSession]_vars

(***************************************************************************)
(* sign_payload on its own: a payload is drawn, then signed.  The payloads *)
(* are dicts over two keys, in either insertion order, whose values are    *)
(* numbers, a string, or such a dict again.                                *)
(***************************************************************************)
SignKeys == {"a", "b"}
SignLeaves == {Lit("1"), Lit("2"), Str("1")}

\* the dicts over SignKeys with values in V: every key set, every order
DictsOver(V) ==
  {<<>>}
  \cup {<< <<k, v>> >> : k \in SignKeys, v \in V}
  \cup {<< <<k[1], v>>, <<k[2], w>> >> :
          k \in {<<"a", "b">>, <<"b", "a">>}, v \in V, w \in V}

SignPayloads ==
  DictsOver(SignLeaves \cup {Obj(d) : d \in DictsOver(SignLeaves)})

InitSign ==
  /\ mandates = <<>>
  /\ audit_log = <<>>
  /\ workflow_step = "Landing"
  /\ clock = 0
  /\ screen \in {[kind |-> "payload", value |-> payload] : payload \in SignPayloads}

SignPayload ==
  /\ screen.kind = "payload"
  /\ screen' = [kind |-> "signature",
                value |-> [payload |-> screen.value,
                           signature |-> sign_payload(screen.value)]]
  /\ UNCHANGED <<mandates, audit_log, workflow_step, clock>>

NextSign == SignPayload

SpecSign == InitSign /\ [][NextSign]_vars

(***************************************************************************)
(* The Execute Payment handler on its own, run twice side by side: two     *)
(* executions are drawn (mandate id, consent form of the mandate, rail,    *)
(* transaction id, gateway status) and each builds its PAYMENT_EXECUTED    *)
(* event as the handler does.                                              *)
(***************************************************************************)
HexTxidsPair == {1, 2}

ExecutionInputs ==
  HexIds \X ConsentForms \X RailOptions \X HexTxidsPair \X GatewayStatuses

ExecutedEvent(x) ==
  LET form == x[2]
      mandate == Mandate(MandateIdOf(x[1]), "IntentMandate", form[3], form[4],
                         now_iso(0), form[1], "ACTIVE",
                         [agent |-> form[2], purpose |-> form[5]])
      response == mock_aani_payment_api(mandate, x[3], TxidOf(x[4]), x[5], 0)
      paid == [mandate EXCEPT !.status = AppliedStatus(response)]
  IN PaymentExecutedEvent(paid, response, x[3], 0)

InitExecutions ==
  /\ mandates = <<>>
  /\ audit_log = <<>>
  /\ workflow_step = "Payment"
  /\ clock = 0
  /\ screen \in {[kind |-> "inputs", value |-> <<x, y>>] :
                   x \in ExecutionInputs, y \in ExecutionInputs}

ExecuteBoth ==
  /\ screen.kind = "inputs"
  /\ screen' = [kind |-> "executions",
                value |-> <<ExecutedEvent(screen.value[1]),
                            ExecutedEvent(screen.value[2])>>]
  /\ UNCHANGED <<mandates, audit_log, workflow_step, clock>>

NextExecutions == ExecuteBoth

SpecExecutions == InitExecutions /\ [][NextExecutions]_vars

(***************************************************************************)
(* Properties.  A step is told apart by what it displays: every handler    *)
(* sets the screen.                                                        *)
(***************************************************************************)
Last(seq) == seq[Len(seq)]

\* the positions of the events this step appended
NewEventPositions == (Len(audit_log) + 1)..Len(audit_log')

Extends(before, after) ==
  /\ Len(after) >= Len(before)
  /\ SubSeq(after, 1, Len(before)) = before

HandlerShows(kind) == screen'.kind = kind

HasEvent(kind) == \E n \in DOMAIN audit_log : audit_log[n].event = kind

\* C1: the audit log is append-only: across every step the log before the
\* step is a prefix of the log after it.
C1_AuditLogAppendOnly == [][Extends(audit_log, audit_log')]_vars

C1_Witness ==
  /\ Len(audit_log) >= 4
  /\ HasEvent("RISK_CHECK")
  /\ HasEvent("PAYMENT_EXECUTED")
  /\ workflow_step = "Landing"

\* C2: every PAYMENT_EXECUTED event is appended by a step that executes a
\* stored mandate which, immediately before the step, had status ACTIVE or
\* ISSUED and type IntentMandate or PaymentMandate.
C2_ExecuteOnlyWhenPermitted ==
  [][\A n \in NewEventPositions :
       audit_log'[n].event = "PAYMENT_EXECUTED" =>
         \E i \in DOMAIN mandates :
           /\ mandates[i].mandate_id = audit_log'[n].mandate_id
           /\ mandates[i].status \in {"ACTIVE", "ISSUED"}
           /\ mandates[i].mandate_type \in {"IntentMandate", "PaymentMandate"}
           /\ mandates' = [mandates EXCEPT ![i].status = audit_log'[n].status]]_vars

C2_Witness ==
  /\ audit_log # <<>>
  /\ Last(audit_log).event = "PAYMENT_EXECUTED"
  /\ Last(audit_log).rail = "UAEFTS/RTGS"

\* C3: an execution applies the gateway status verbatim: the executed
\* mandate's status becomes the response's status s, nothing else of the
\* store changes, the appended PAYMENT_EXECUTED event carries s in its status
\* field and in its embedded response, and no mandate ever has status
\* EXECUTED.
C3_ExecuteAppliesGatewayStatus ==
  [][/\ \A i \in DOMAIN mandates' : mandates'[i].status # "EXECUTED"
     /\ HandlerShows("paid") =>
          LET response == screen'.value
              e == Last(audit_log')
          IN /\ response.status \in GatewayStatuses
             /\ audit_log' = Append(audit_log, e)
             /\ e.event = "PAYMENT_EXECUTED"
             /\ e.status = response.status
             /\ e.response = response
             /\ \E i \in DOMAIN mandates :
                  /\ mandates[i].mandate_id = e.mandate_id
                  /\ mandates' =
                       [mandates EXCEPT ![i].status = response.status]]_vars

C3_Witness ==
  /\ screen.kind = "paid"
  /\ screen.value.status = "SETTLED"
  /\ \E i \in DOMAIN mandates : mandates[i].status = "SETTLED"

\* C4: the audit log grows by exactly two on an intent creation, by exactly
\* one on a risk screening, an execution, a conversion or a revocation, and
\* not at all on any other step (failed operations, page renders).
Growth(kind) ==
  IF kind = "issued" THEN 2
  ELSE IF kind \in {"risk", "paid", "revoked", "converted"} THEN 1
  ELSE 0

C4_AuditLogGrowth ==
  [][Len(audit_log') = Len(audit_log) + Growth(screen'.kind)]_vars

C4_Witness ==
  /\ Len(audit_log) = 5
  /\ HasEvent("MANDATE_REVOKED")
  /\ HasEvent("INTENT_CONVERTED")
  /\ screen.kind = "error"

\* C5: no two mandates in the store have the same mandate_id.
C5_MandateIdsUnique ==
  \A i, j \in DOMAIN mandates :
    i # j => mandates[i].mandate_id # mandates[j].mandate_id

\* C6: every event appended with a mandate_id names a mandate that is in the
\* store when the event is appended.
C6_EventsNameStoredMandates ==
  [][\A n \in NewEventPositions :
       "mandate_id" \in DOMAIN audit_log'[n] =>
         \E i \in DOMAIN mandates' :
           mandates'[i].mandate_id = audit_log'[n].mandate_id]_vars

C6_Witness ==
  /\ HasEvent("MANDATE_ISSUED")
  /\ HasEvent("CBUAE_CONSENT_REGISTERED")
  /\ HasEvent("RISK_CHECK")
  /\ HasEvent("PAYMENT_EXECUTED")
  /\ Len(mandates) = 1

\* C7: a risk screening is run only for a mandate with status ACTIVE or
\* ISSUED, yields a level in {LOW, MEDIUM, HIGH}, appends exactly one
\* RISK_CHECK event with that level and the mandate's id, and leaves every
\* mandate in the store as it was.
C7_RiskScreeningFrame ==
  [][(\/ HandlerShows("risk")
      \/ \E n \in NewEventPositions : audit_log'[n].event = "RISK_CHECK") =>
       LET e == Last(audit_log')
       IN /\ audit_log' = Append(audit_log, e)
          /\ e.event = "RISK_CHECK"
          /\ e.risk_level \in RiskLevels
          /\ screen' = [kind |-> "risk", value |-> e.risk_level]
          /\ mandates' = mandates
          /\ \E i \in DOMAIN mandates :
               /\ mandates[i].mandate_id = e.mandate_id
               /\ mandates[i].status \in {"ACTIVE", "ISSUED"}]_vars

C7_Witness ==
  /\ screen.kind = "risk"
  /\ screen.value = "HIGH"
  /\ Len(mandates) = 2
  /\ Last(audit_log).event = "RISK_CHECK"

\* C8: an intent creation puts a new IntentMandate with status ACTIVE at the
\* head of the store, the mandates stored before keeping their order behind
\* it, and appends exactly two events with its id: MANDATE_ISSUED, signed
\* over the mandate, then CBUAE_CONSENT_REGISTERED.
C8_IntentCreation ==
  [][(HandlerShows("issued") \/ Len(mandates') # Len(mandates)) =>
       /\ mandates' # <<>>
       /\ Tail(mandates') = mandates
       /\ Head(mandates').mandate_type = "IntentMandate"
       /\ Head(mandates').status = "ACTIVE"
       /\ Head(mandates').mandate_id = screen'.value
       /\ Len(audit_log') = Len(audit_log) + 2
       /\ Extends(audit_log, audit_log')
       /\ LET issued == audit_log'[Len(audit_log) + 1]
              registered == audit_log'[Len(audit_log) + 2]
          IN /\ issued.event = "MANDATE_ISSUED"
             /\ issued.mandate_id = Head(mandates').mandate_id
             /\ issued.signature = sign_payload(to_dict(Head(mandates')))
             /\ registered.event = "CBUAE_CONSENT_REGISTERED"
             /\ registered.mandate_id = Head(mandates').mandate_id]_vars

C8_Witness ==
  /\ screen.kind = "issued"
  /\ Len(mandates) = 2
  /\ mandates[1].currency # mandates[2].currency
  /\ Len(audit_log) = 4

\* C9: revoking a stored mandate that is not REVOKED succeeds: its status
\* becomes REVOKED, nothing else of the store changes and one MANDATE_REVOKED
\* event is appended; revoking a mandate that is REVOKED fails with
\* InvalidStateError and changes neither the store nor the log.
RevokeFailure(error) ==
  /\ HandlerShows("error")
  /\ screen'.value.op = "revoke"
  /\ screen'.value.error = error

C9_RevokeOnceThenFail ==
  [][/\ HandlerShows("revoked") =>
          LET i == Lookup(mandates, screen'.value)
              e == Last(audit_log')
          IN /\ i # 0
             /\ mandates[i].status # "REVOKED"
             /\ mandates' = [mandates EXCEPT ![i].status = "REVOKED"]
             /\ audit_log' = Append(audit_log, e)
             /\ e.event = "MANDATE_REVOKED"
             /\ e.mandate_id = screen'.value
     /\ RevokeFailure("InvalidStateError") =>
          LET i == Lookup(mandates, screen'.value.mandate_id)
          IN /\ i # 0
             /\ mandates[i].status = "REVOKED"
             /\ mandates' = mandates
             /\ audit_log' = audit_log
     /\ RevokeFailure("NotFoundError") =>
          /\ Lookup(mandates, screen'.value.mandate_id) = 0
          /\ mandates' = mandates
          /\ audit_log' = audit_log]_vars

C9_Witness ==
  /\ screen.kind = "error"
  /\ screen.value.op = "revoke"
  /\ screen.value.error = "InvalidStateError"
  /\ HasEvent("MANDATE_REVOKED")

ConvertFailure(error) ==
  /\ HandlerShows("error")
  /\ screen'.value.op = "convert"
  /\ screen'.value.error = error

C11_ConvertIntentOnly ==
  [][/\ HandlerShows("converted") =>
          LET i == Lookup(mandates, screen'.value)
              e == Last(audit_log')
          IN /\ i # 0
             /\ mandates[i].mandate_type = "IntentMandate"
             /\ mandates[i].status \in {"ACTIVE", "ISSUED"}
             /\ mandates' = [mandates EXCEPT ![i].mandate_type = "PaymentMandate",
                                             ![i].status = "ISSUED"]
             /\ audit_log' = Append(audit_log, e)
             /\ e.event = "INTENT_CONVERTED"
             /\ e.mandate_id = screen'.value
     /\ ConvertFailure("InvalidStateError") =>
          LET i == Lookup(mandates, screen'.value.mandate_id)
          IN /\ i # 0
             /\ \/ mandates[i].mandate_type = "PaymentMandate"
                \/ mandates[i].status \notin {"ACTIVE", "ISSUED"}
             /\ mandates' = mandates
             /\ audit_log' = audit_log]_vars

C11_Witness ==
  /\ screen.kind = "error"
  /\ screen.value.op = "convert"
  /\ screen.value.error = "InvalidStateError"
  /\ screen.value.status = "ISSUED"
  /\ \E i \in DOMAIN mandates :
       /\ mandates[i].mandate_id = screen.value.mandate_id
       /\ mandates[i].mandate_type = "PaymentMandate"
  /\ HasEvent("INTENT_CONVERTED")

C13_ImmutableFields ==
  [][/\ Len(mandates') >= Len(mandates)
     /\ \A i \in DOMAIN mandates :
          LET before == mandates[i]
              after == mandates'[i + Len(mandates') - Len(mandates)]
          IN /\ after.mandate_id = before.mandate_id
             /\ after.amount = before.amount
             /\ after.currency = before.currency
             /\ after.created_at = before.created_at
             /\ after.issued_by = before.issued_by
             /\ after.status # before.status =>
                  screen'.kind \in {"paid", "revoked", "converted"}
             /\ after.mandate_type # before.mandate_type =>
                  /\ screen'.kind = "converted"
                  /\ before.mandate_type = "IntentMandate"
                  /\ after.mandate_type = "PaymentMandate"
                  /\ after.status = "ISSUED"]_vars

C13_Witness ==
  /\ HasEvent("INTENT_CONVERTED")
  /\ HasEvent("PAYMENT_EXECUTED")
  /\ clock = 1
  /\ \E i \in DOMAIN mandates :
       /\ mandates[i].mandate_type = "PaymentMandate"
       /\ mandates[i].status = "SETTLED"
       /\ mandates[i].created_at = now_iso(0)

\* C14: the listing of the Audit step is exactly the stored log reversed:
\* it has as many entries as the log, its entry at position i (from 0) is
\* the log's entry at position n-1-i, and producing it does not change the
\* stored log.
C14_ListingIsLogReversed ==
  [][workflow_step' = "Audit" =>
       /\ audit_log' = audit_log
       /\ IF audit_log = <<>> THEN screen'.kind = "info"
          ELSE /\ screen'.kind = "entries"
               /\ Len(screen'.value) = Len(audit_log)
               /\ \A i \in 0..(Len(audit_log) - 1) :
                    screen'.value[i + 1] = audit_log[(Len(audit_log) - 1 - i) + 1]]_vars

C14_Witness ==
  /\ workflow_step = "Audit"
  /\ screen.kind = "entries"
  /\ Len(screen.value) = 5
  /\ screen.value[1].event = "PAYMENT_EXECUTED"
  /\ screen.value[2].event = "RISK_CHECK"
  /\ screen.value[5].event = "MANDATE_ISSUED"

\* C15: a settlement response carries a settlement time only when its status
\* is SETTLED; for PENDING and FAILED the settlement time is absent.
NoSettlementTime(response) ==
  \/ "settlementTime" \notin DOMAIN response
  \/ response.settlementTime \in {"", "None", "null"}

C15_SettlementTimeOnlyWhenSettled ==
  \A n \in DOMAIN audit_log :
    (/\ audit_log[n].event = "PAYMENT_EXECUTED"
     /\ audit_log[n].response.status \in {"PENDING", "FAILED"})
    => NoSettlementTime(audit_log[n].response)

\* C16: the gateway answers with a status in {SETTLED, PENDING, FAILED} and
\* maps it to processing code and narrative as SETTLED -> ("00", "Payment
\* successful"), PENDING -> ("09", "Payment pending"), FAILED -> ("05",
\* "Payment failed"); no response shows another status or pairing.
StatusPairing ==
  { <<"SETTLED", "00", "Payment successful">>,
    <<"PENDING", "09", "Payment pending">>,
    <<"FAILED", "05", "Payment failed">> }

C16_StatusCodeNarrative ==
  /\ \A n \in DOMAIN audit_log :
       audit_log[n].event = "PAYMENT_EXECUTED" =>
         LET response == audit_log[n].response
         IN <<response.status, response.processingCode, response.narrative>>
              \in StatusPairing
  /\ screen.kind = "paid" =>
       <<screen.value.status, screen.value.processingCode, screen.value.narrative>>
         \in StatusPairing

C16_Witness ==
  /\ screen.kind = "paid"
  /\ screen.value.status = "FAILED"
  /\ screen.value.processingCode = "05"
  /\ Last(audit_log).event = "PAYMENT_EXECUTED"
  /\ Last(audit_log).response.narrative = "Payment failed"

\* C17: for every PAYMENT_EXECUTED event, the embedded response echoes the
\* executed mandate's amount (to two decimal places) and currency and the
\* rail selected for the call, the event's rail equals the response's rail,
\* and the event's transaction_id equals the response's transaction id.
C17_ResponseEchoesInput ==
  [][\A n \in NewEventPositions :
       audit_log'[n].event = "PAYMENT_EXECUTED" =>
         LET e == audit_log'[n]
             response == e.response
         IN /\ e.rail \in RailOptions
            /\ response.rail = e.rail
            /\ response.transactionId = e.transaction_id
            /\ \E i \in DOMAIN mandates :
                 /\ mandates'[i] # mandates[i]
                 /\ \A j \in DOMAIN mandates : j # i => mandates'[j] = mandates[j]
                 /\ mandates[i].mandate_id = e.mandate_id
                 /\ response.amount = Format2f(mandates[i].amount)
                 /\ response.currency = mandates[i].currency]_vars

C17_Witness ==
  /\ Len(mandates) = 2
  /\ audit_log # <<>>
  /\ Last(audit_log).event = "PAYMENT_EXECUTED"
  /\ Last(audit_log).response.amount = "0.01"
  /\ Last(audit_log).response.currency = "EUR"
  /\ Last(audit_log).rail = "UAEFTS/RTGS"
  /\ \E i \in DOMAIN mandates : mandates[i].currency = "AED"

\* C18: sign(payload) depends only on the payload's value: a payload equal
\* to the signed one as a mapping, whatever the insertion order of its keys
\* at any nesting depth, gets the same signature, and a payload that differs
\* from it in any field value gets a different signature.
RECURSIVE SameValue(_, _), SameMapping(_, _)
SameValue(v, w) ==
  /\ v.kind = w.kind
  /\ IF v.kind = "obj" THEN SameMapping(v.items, w.items) ELSE v.text = w.text

\* equal as mappings: the same keys, each with the same value
SameMapping(d, e) ==
  /\ Len(d) = Len(e)
  /\ \A i \in DOMAIN d : \E j \in DOMAIN e :
       /\ e[j][1] = d[i][1]
       /\ SameValue(d[i][2], e[j][2])

C18_SignatureByValue ==
  screen.kind = "signature" =>
    \A other \in SignPayloads :
      SameMapping(screen.value.payload, other)
        <=> (sign_payload(other) = screen.value.signature)

C18_Witness ==
  /\ screen.kind = "signature"
  /\ screen.value.payload =
       << <<"b", Obj(<< <<"b", Lit("2")>>, <<"a", Str("1")>> >>)>>,
          <<"a", Lit("1")>> >>
  /\ screen.value.signature =
       sign_payload(<< <<"a", Lit("1")>>,
                       <<"b", Obj(<< <<"a", Str("1")>>, <<"b", Lit("2")>> >>)>> >>)
  /\ screen.value.signature #
       sign_payload(<< <<"a", Lit("1")>>,
                       <<"b", Obj(<< <<"a", Lit("1")>>, <<"b", Lit("2")>> >>)>> >>)

\* C19: once a mandate's status has left {ACTIVE, ISSUED} no step changes
\* the mandate again: SETTLED, PENDING and FAILED are absorbing, so a PENDING
\* mandate is never resolved, and such a mandate is offered neither for
\* execution nor for risk screening, before the step or after it.
Offered(listed, i) == \E k \in DOMAIN listed : listed[k] = i

C19_OutcomeIsAbsorbing ==
  [][/\ Len(mandates') >= Len(mandates)
     /\ \A i \in DOMAIN mandates :
          mandates[i].status \notin {"ACTIVE", "ISSUED"} =>
            LET j == i + Len(mandates') - Len(mandates)
            IN /\ mandates'[j] = mandates[i]
               /\ ~Offered(Available(mandates), i)
               /\ ~Offered(RiskCandidates(mandates), i)
               /\ ~Offered(Available(mandates'), j)
               /\ ~Offered(RiskCandidates(mandates'), j)]_vars

C19_Witness ==
  /\ workflow_step = "Payment"
  /\ screen.kind = "info"
  /\ Len(mandates) = 1
  /\ mandates[1].status = "PENDING"
  /\ Last(audit_log).event = "PAYMENT_EXECUTED"

\* C20: the audit log holds at most one PAYMENT_EXECUTED event per
\* mandate_id: a mandate is executed at most once, whatever status the
\* gateway returned.
C20_OneExecutionPerMandateId ==
  \A m, n \in DOMAIN audit_log :
    (/\ audit_log[m].event = "PAYMENT_EXECUTED"
     /\ audit_log[n].event = "PAYMENT_EXECUTED"
     /\ audit_log[m].mandate_id = audit_log[n].mandate_id)
    => m = n

\* C21: for every mandate the events in the log follow a fixed order: its
\* MANDATE_ISSUED event is the first event with its id and is immediately
\* followed by its CBUAE_CONSENT_REGISTERED event, all its RISK_CHECK events
\* come after those two, and no RISK_CHECK event with its id comes after a
\* PAYMENT_EXECUTED event with its id.
EventOf(n, kind, id) ==
  /\ n \in DOMAIN audit_log
  /\ audit_log[n].event = kind
  /\ audit_log[n].mandate_id = id

C21_EventOrderPerMandate ==
  \A i \in DOMAIN mandates :
    LET id == mandates[i].mandate_id IN
    /\ \E n \in DOMAIN audit_log : EventOf(n, "MANDATE_ISSUED", id)
    /\ \A n \in DOMAIN audit_log :
         /\ EventOf(n, "MANDATE_ISSUED", id) =>
              /\ \A k \in 1..(n - 1) : audit_log[k].mandate_id # id
              /\ EventOf(n + 1, "CBUAE_CONSENT_REGISTERED", id)
         /\ EventOf(n, "RISK_CHECK", id) =>
              /\ \A k \in DOMAIN audit_log :
                   (\/ EventOf(k, "MANDATE_ISSUED", id)
                    \/ EventOf(k, "CBUAE_CONSENT_REGISTERED", id)) => k < n
              /\ \A k \in 1..(n - 1) : ~EventOf(k, "PAYMENT_EXECUTED", id)

\* C22: whether a mandate can be executed depends only on its type and
\* status, never on the audit log: at the Payment step a stored mandate (the
\* first one listed under its id) can be executed exactly when its type is
\* IntentMandate or PaymentMandate and its status ACTIVE or ISSUED, be it
\* never risk-screened or last screened HIGH.
Permitted(m) ==
  /\ m.mandate_type \in {"IntentMandate", "PaymentMandate"}
  /\ m.status \in {"ACTIVE", "ISSUED"}

C22_ExecuteIgnoresAuditLog ==
  [][/\ (workflow_step # "Payment" /\ workflow_step' = "Payment") =>
          LET permitted == {i \in DOMAIN mandates' : Permitted(mandates'[i])}
          IN IF permitted = {} THEN screen'.kind = "info"
             ELSE /\ screen'.kind = "select"
                  /\ Len(screen'.value) = Cardinality(permitted)
                  /\ \A i \in permitted :
                       \E k \in DOMAIN screen'.value :
                         screen'.value[k] = mandates'[i].mandate_id
     /\ HandlerShows("paid") =>
          \E i \in DOMAIN mandates :
            /\ Permitted(mandates[i])
            /\ mandates' = [mandates EXCEPT ![i].status = screen'.value.status]]_vars

C22_Witness ==
  /\ screen.kind = "paid"
  /\ Len(mandates) = 1
  /\ Len(audit_log) = 5
  /\ audit_log[3].event = "RISK_CHECK"
  /\ audit_log[4].event = "RISK_CHECK"
  /\ audit_log[4].risk_level = "HIGH"
  /\ audit_log[5].event = "PAYMENT_EXECUTED"

\* C23: the workflow step is always one of Landing, Consent, Registry,
\* RiskAML, Payment, Audit; it starts at Landing, and every step that changes
\* it moves it to its successor in the cycle Landing, Consent, Registry,
\* RiskAML, Payment, Audit, Landing and changes neither the mandate store nor
\* the audit log, Restart Demo from Audit included.
StepCycle == <<"Landing", "Consent", "Registry", "RiskAML", "Payment", "Audit">>

SuccessorStep(step) ==
  LET k == CHOOSE n \in DOMAIN StepCycle : StepCycle[n] = step
  IN StepCycle[(k % Len(StepCycle)) + 1]

C23_StepCycle ==
  /\ workflow_step = "Landing"
  /\ [][/\ workflow_step \in Steps
        /\ workflow_step' \in Steps
        /\ workflow_step' # workflow_step =>
             /\ workflow_step' = SuccessorStep(workflow_step)
             /\ mandates' = mandates
             /\ audit_log' = audit_log]_vars

C23_Witness ==
  /\ workflow_step = "Landing"
  /\ Len(mandates) = 2
  /\ Len(audit_log) = 5
  /\ Last(audit_log).event = "PAYMENT_EXECUTED"

\* C24: the signature stored in a PAYMENT_EXECUTED event is a function of
\* the mandate_id and the transaction id only: it is the signature of those
\* two, and two executions that agree on mandate_id and transaction id have
\* the same signature even when they differ in settlement status, amount,
\* currency or rail; the embedded response is not covered.
C24_SignatureOverIdAndTxidOnly ==
  screen.kind = "executions" =>
    LET first == screen.value[1]
        second == screen.value[2]
    IN /\ \A e \in {first, second} :
            e.signature =
              sign_payload(<< <<"mandate_id", Str(e.mandate_id)>>,
                              <<"txid", Str(e.transaction_id)>> >>)
       /\ (/\ first.mandate_id = second.mandate_id
           /\ first.transaction_id = second.transaction_id)
          => first.signature = second.signature

C24_Witness ==
  /\ screen.kind = "executions"
  /\ screen.value[1].mandate_id = screen.value[2].mandate_id
  /\ screen.value[1].transaction_id = screen.value[2].transaction_id
  /\ screen.value[1].status # screen.value[2].status
  /\ screen.value[1].rail # screen.value[2].rail
  /\ screen.value[1].response.amount # screen.value[2].response.amount
  /\ screen.value[1].response.currency # screen.value[2].response.currency
  /\ screen.value[1].signature = screen.value[2].signature
====
